---------------------------- MODULE Spec2Model ----------------------------
(***************************************************************************)
(* A model of bulletindown's Markdown-to-BBCode translator,                *)
(* `convert` in src/src/convert.rs.                                        *)
(*                                                                         *)
(* A Rust `String` is modelled as a sequence of characters.  A character   *)
(* is a TLA+ string: an ASCII character stands for itself ("[", "\n"),     *)
(* any other character is written by its code point name ("U+231C").       *)
(* The events of the pulldown-cmark parser are the inputs of the model:    *)
(* each step of the model is one iteration of `for event in parser`.       *)
(***************************************************************************)
EXTENDS Integers, Sequences, FiniteSets, TLC

VARIABLES
    dialect,            \* the `dialect` parameter of convert
    encoding_warnings,  \* the `encoding_warnings` parameter of convert
    output,             \* the in-memory buffer `output`
    start_li,           \* the flag `start_li`
    start_fn,           \* the flag `start_fn`
    stderr,             \* the lines written by eprintln!, in order
    result,             \* what convert has returned, if it has returned
    log                 \* the events pulled from the parser so far, each
                        \* with what its handler cut from `output`, pushed
                        \* to it and wrote to stderr

vars == <<dialect, encoding_warnings, output, start_li, start_fn, stderr,
          result, log>>

(***************************************************************************)
(* Bounds of the model: the number of events the parser yields, for each   *)
(* of the specifications below.                                            *)
(***************************************************************************)
MaxEvents == 2
MaxFlagEvents == 4
MaxNestEvents == 4
MaxHtmlEvents == 3
MaxCharEvents == 2
MaxItemEvents == 4

---------------------------------------------------------------------------
(* Characters and strings                                                  *)

\* The characters of a string literal, one element each.
Chars(s) == [i \in 1..Len(s) |-> SubSeq(s, i, i)]

\* The printable ASCII characters in code point order: U+0020 to U+005F,
\* and U+0061 to U+007E (no model string holds U+0060).
AsciiLow == " !\"#$%&'()*+,-./0123456789:;<=>?@ABCDEFGHIJKLMNOPQRSTUVWXYZ[\\]^_"
AsciiHigh == "abcdefghijklmnopqrstuvwxyz{|}~"

AsciiCode ==
    [c \in {SubSeq(AsciiLow, i, i) : i \in 1..Len(AsciiLow)} |->
        31 + (CHOOSE i \in 1..Len(AsciiLow) : SubSeq(AsciiLow, i, i) = c)]
    @@ [c \in {SubSeq(AsciiHigh, i, i) : i \in 1..Len(AsciiHigh)} |->
        96 + (CHOOSE i \in 1..Len(AsciiHigh) : SubSeq(AsciiHigh, i, i) = c)]

\* The other characters the model uses, with their code points.
NamedCode ==
    ("\t" :> 9) @@ ("\n" :> 10) @@ ("\r" :> 13)
    @@ ("U+00A0" :> 160)        \* NO-BREAK SPACE
    @@ ("U+231C" :> 8988)       \* TOP LEFT CORNER
    @@ ("U+231D" :> 8989)       \* TOP RIGHT CORNER
    @@ ("U+2501" :> 9473)       \* BOX DRAWINGS HEAVY HORIZONTAL
    @@ ("U+2610" :> 9744)       \* BALLOT BOX
    @@ ("U+2611" :> 9745)       \* BALLOT BOX WITH CHECK
    @@ ("U+FFFD" :> 65533)
    @@ ("U+FFFE" :> 65534)
    @@ ("U+FFFF" :> 65535)
    @@ ("U+10000" :> 65536)
    @@ ("U+1F600" :> 128512)

\* u32::from(c)
CodePoint(c) == IF c \in DOMAIN NamedCode THEN NamedCode[c] ELSE AsciiCode[c]

\* char::is_whitespace: the code points with the Unicode White_Space property.
IsWhitespace(c) ==
    LET n == CodePoint(c)
    IN  \/ n \in 9..13
        \/ n \in {32, 133, 160, 5760, 8232, 8233, 8239, 8287, 12288}
        \/ n \in 8192..8202

\* trim_end that knows the ASCII white space only.
RECURSIVE trim_end_ascii(_)
trim_end_ascii(s) ==
    IF s # <<>> /\ s[Len(s)] \in {" ", "\t", "\n", "\r"}
    THEN trim_end_ascii(SubSeq(s, 1, Len(s) - 1))
    ELSE s

\* str::trim_end
RECURSIVE trim_end(_)
trim_end(s) ==
    IF s # <<>> /\ IsWhitespace(s[Len(s)])
    THEN trim_end(SubSeq(s, 1, Len(s) - 1))
    ELSE s

\* str::trim_start
RECURSIVE trim_start(_)
trim_start(s) ==
    IF s # <<>> /\ IsWhitespace(s[1]) THEN trim_start(Tail(s)) ELSE s

\* str::trim
trim(s) == trim_end(trim_start(s))

\* str::starts_with
starts_with(s, p) == Len(p) <= Len(s) /\ SubSeq(s, 1, Len(p)) = p

\* str::ends_with
ends_with(s, p) ==
    Len(p) <= Len(s) /\ SubSeq(s, Len(s) - Len(p) + 1, Len(s)) = p

\* s.split(&['<', '>'][..]): the pieces of s between the separators.
RECURSIVE split(_, _)
split(s, piece) ==
    IF s = <<>> THEN <<piece>>
    ELSE IF s[1] \in {"<", ">"} THEN <<piece>> \o split(Tail(s), <<>>)
    ELSE split(Tail(s), Append(piece, s[1]))

\* The entities the model decodes; html_escape knows all of HTML's.
Entities ==
    {<<Chars("&amp;"), "&">>, <<Chars("&lt;"), "<">>,
     <<Chars("&gt;"), ">">>, <<Chars("&quot;"), "\"">>}

\* html_escape::decode_html_entities_to_string: each entity becomes the
\* character it names, everything else is copied.
RECURSIVE decode_html_entities(_)
decode_html_entities(s) ==
    IF s = <<>> THEN <<>>
    ELSE IF \E e \in Entities : starts_with(s, e[1])
    THEN LET e == CHOOSE x \in Entities : starts_with(s, x[1])
         IN  <<e[2]>> \o decode_html_entities(SubSeq(s, Len(e[1]) + 1, Len(s)))
    ELSE <<s[1]>> \o decode_html_entities(Tail(s))

---------------------------------------------------------------------------
(* Events                                                                  *)

Xenforo == "Xenforo"
Proboards == "Proboards"
Dialect == {Xenforo, Proboards}

\* pulldown_cmark::Tag, a tuple of the variant's name and the fields convert
\* reads: the heading level, whether a list is ordered, a footnote name or
\* url, an image title.
Tag(name) == <<name, 0, FALSE, <<>>, <<>>>>
TagName(tag) == tag[1]
TagLevel(tag) == tag[2]
TagOrdered(tag) == tag[3]
TagText(tag) == tag[4]
TagTitle(tag) == tag[5]
Paragraph == Tag("Paragraph")
Heading(lvl) == [Tag("Heading") EXCEPT ![2] = lvl]
BlockQuote == Tag("BlockQuote")
CodeBlock == Tag("CodeBlock")
List(ord) == [Tag("List") EXCEPT ![3] = ord]
Item == Tag("Item")
FootnoteDefinition(fnid) == [Tag("FootnoteDefinition") EXCEPT ![4] = fnid]
Table == Tag("Table")
TableHead == Tag("TableHead")
TableRow == Tag("TableRow")
TableCell == Tag("TableCell")
Emphasis == Tag("Emphasis")
Strong == Tag("Strong")
Strikethrough == Tag("Strikethrough")
Link(url) == [Tag("Link") EXCEPT ![4] = url]
Image(url, title) == [Tag("Image") EXCEPT ![4] = url, ![5] = title]

\* pulldown_cmark::Event, a tuple of the variant's name, its tag, its text
\* and the state of a task list marker.
Event(kind) == <<kind, Tag("-"), <<>>, FALSE>>
Kind(ev) == ev[1]
EventTag(ev) == ev[2]
EventText(ev) == ev[3]
Checked(ev) == ev[4]
Start(tag) == [Event("Start") EXCEPT ![2] = tag]
End(tag) == [Event("End") EXCEPT ![2] = tag]
Text(s) == [Event("Text") EXCEPT ![3] = s]
Code(s) == [Event("Code") EXCEPT ![3] = s]
Html(s) == [Event("Html") EXCEPT ![3] = s]
FootnoteReference(fnid) == [Event("FootnoteReference") EXCEPT ![3] = fnid]
SoftBreak == Event("SoftBreak")
HardBreak == Event("HardBreak")
Rule == Event("Rule")
TaskListMarker(checked) == [Event("TaskListMarker") EXCEPT ![4] = checked]

\* The tags of the documents the model converts.
Url == Chars("u")

\* A tag for each arm of `match tag`, and a heading of each level.
AllTags ==
    {Paragraph, BlockQuote, CodeBlock, List(TRUE), List(FALSE),
     Item, FootnoteDefinition(<<"1">>), Table, TableHead, TableRow, TableCell,
     Emphasis, Strong, Strikethrough, Link(Url), Image(Url, Chars("t"))}
    \cup {Heading(lvl) : lvl \in 1..6}

\* Paragraphs, lists, list items and footnote definitions.
FlagTags == {Paragraph, List(FALSE), Item, FootnoteDefinition(<<"1">>)}

\* The constructs with composite or dialect-dependent closing markup.
NestTags ==
    {Heading(1), List(TRUE), List(FALSE), Item, Table, TableHead, TableRow,
     TableCell, Strong, Link(Url)}

Tags == AllTags \cup FlagTags \cup NestTags

---------------------------------------------------------------------------
(* What each arm of `match event` pushes                                   *)

\* The message of the one error convert bails with (a TLA+ string holds no
\* backquote: the source quotes <summary> in a pair of them).
MULTILINE_SUMMARY ==
    "A <summary> element (including its contents) must be all on a single line"

\* heading_size with the arms of H4 and of the other levels exchanged.
heading_size_swapped(lvl) ==
    CASE lvl = 1 -> "7"
      [] lvl = 2 -> "6"
      [] lvl = 3 -> "5"
      [] lvl = 4 -> "3"
      [] OTHER -> "4"

\* The size digit of Event::Start(Tag::Heading(lvl, _, _)).
heading_size(lvl) ==
    CASE lvl = 1 -> "7"
      [] lvl = 2 -> "6"
      [] lvl = 3 -> "5"
      [] lvl = 4 -> "4"
      [] OTHER -> "3"

\* start_push with a space after the item-open token.
start_push_spaced(d, tag) ==
    CASE TagName(tag) = "Heading" ->
            (IF d = Xenforo THEN Chars("\n[size=\"") ELSE Chars("\n\n[font size=\""))
            \o <<heading_size(TagLevel(tag))>> \o Chars("\"][b][u]")
      [] TagName(tag) = "BlockQuote" ->
            IF d = Xenforo THEN Chars("[quote]") ELSE Chars("[blockquote]")
      [] TagName(tag) = "CodeBlock" ->
            IF d = Xenforo THEN Chars("[code]") ELSE Chars("\n[pre]")
      [] TagName(tag) = "List" ->
            IF TagOrdered(tag)
            THEN (IF d = Xenforo THEN Chars("[list=1]") ELSE Chars("\n[ol]"))
            ELSE (IF d = Xenforo THEN Chars("[list]") ELSE Chars("\n[ul]"))
      [] TagName(tag) = "Item" ->
            IF d = Xenforo THEN Chars("\n[*] ") ELSE Chars("\n[li] ")
      [] TagName(tag) = "FootnoteDefinition" ->
            <<"\n", "U+231C">> \o TagText(tag) \o <<"U+231D", ":", " ">>
      [] TagName(tag) = "Table" -> Chars("[table]")
      [] TagName(tag) = "TableHead" ->
            IF d = Xenforo THEN Chars("[tr]") ELSE Chars("\n  [thead][tr]")
      [] TagName(tag) = "TableRow" -> Chars("[tr]")
      [] TagName(tag) = "TableCell" -> Chars("[td]")
      [] TagName(tag) = "Emphasis" -> Chars("[i]")
      [] TagName(tag) = "Strong" -> Chars("[b]")
      [] TagName(tag) = "Strikethrough" -> Chars("[s]")
      [] TagName(tag) = "Link" ->
            (IF d = Xenforo THEN Chars("[url=") ELSE Chars("[a href=\""))
            \o TagText(tag)
            \o (IF d = Xenforo THEN Chars("]") ELSE Chars("\"]"))
      [] TagName(tag) = "Image" ->
            IF d = Xenforo
            THEN Chars("[img]") \o TagText(tag) \o Chars("[/img]")
            ELSE Chars("[img src=\"") \o TagText(tag) \o Chars("\" alt=\"")
                 \o TagTitle(tag) \o Chars("\"]")
      [] OTHER -> <<>>     \* Tag::Paragraph, which on_start handles

\* What Event::Start(tag) pushes, for every tag but Tag::Paragraph.
start_push(d, tag) ==
    CASE TagName(tag) = "Heading" ->
            (IF d = Xenforo THEN Chars("\n[size=\"") ELSE Chars("\n\n[font size=\""))
            \o <<heading_size(TagLevel(tag))>> \o Chars("\"][b][u]")
      [] TagName(tag) = "BlockQuote" ->
            IF d = Xenforo THEN Chars("[quote]") ELSE Chars("[blockquote]")
      [] TagName(tag) = "CodeBlock" ->
            IF d = Xenforo THEN Chars("[code]") ELSE Chars("\n[pre]")
      [] TagName(tag) = "List" ->
            IF TagOrdered(tag)
            THEN (IF d = Xenforo THEN Chars("[list=1]") ELSE Chars("\n[ol]"))
            ELSE (IF d = Xenforo THEN Chars("[list]") ELSE Chars("\n[ul]"))
      [] TagName(tag) = "Item" ->
            IF d = Xenforo THEN Chars("\n[*]") ELSE Chars("\n[li]")
      [] TagName(tag) = "FootnoteDefinition" ->
            <<"\n", "U+231C">> \o TagText(tag) \o <<"U+231D", ":", " ">>
      [] TagName(tag) = "Table" -> Chars("[table]")
      [] TagName(tag) = "TableHead" ->
            IF d = Xenforo THEN Chars("[tr]") ELSE Chars("\n  [thead][tr]")
      [] TagName(tag) = "TableRow" -> Chars("[tr]")
      [] TagName(tag) = "TableCell" -> Chars("[td]")
      [] TagName(tag) = "Emphasis" -> Chars("[i]")
      [] TagName(tag) = "Strong" -> Chars("[b]")
      [] TagName(tag) = "Strikethrough" -> Chars("[s]")
      [] TagName(tag) = "Link" ->
            (IF d = Xenforo THEN Chars("[url=") ELSE Chars("[a href=\""))
            \o TagText(tag)
            \o (IF d = Xenforo THEN Chars("]") ELSE Chars("\"]"))
      [] TagName(tag) = "Image" ->
            IF d = Xenforo
            THEN Chars("[img]") \o TagText(tag) \o Chars("[/img]")
            ELSE Chars("[img src=\"") \o TagText(tag) \o Chars("\" alt=\"")
                 \o TagTitle(tag) \o Chars("\"]")
      [] OTHER -> <<>>     \* Tag::Paragraph, which on_start handles

\* end_push closing every ProBoards list as an unordered one.
end_push_unordered(d, tag) ==
    CASE TagName(tag) = "Paragraph" -> <<"\n">>
      [] TagName(tag) = "Heading" ->
            IF d = Xenforo THEN Chars("[/u][/b][/size]\n")
            ELSE Chars("[/u][/b][/font]\n\n")
      [] TagName(tag) = "List" ->
            IF d = Xenforo THEN Chars("\n[/list]") ELSE Chars("\n[/ul]")
      [] TagName(tag) = "Table" ->
            IF d = Xenforo THEN Chars("[/table]")
            ELSE Chars("\n  [/tbody]\n[/table]")
      [] TagName(tag) = "TableHead" ->
            IF d = Xenforo THEN Chars("[/tr]")
            ELSE Chars("[/tr][/thead]\n  [tbody]")
      [] TagName(tag) = "TableRow" -> Chars("[/tr]")
      [] TagName(tag) = "TableCell" -> Chars("[/td]")
      [] TagName(tag) = "Strong" -> Chars("[/b]")
      [] TagName(tag) = "Link" ->
            IF d = Xenforo THEN Chars("[/url]") ELSE Chars("[/a]")
      [] OTHER -> <<>>

\* What Event::End(tag) pushes, for every tag but Tag::Item.
end_push(d, tag) ==
    CASE TagName(tag) = "Paragraph" -> <<"\n">>
      [] TagName(tag) = "Heading" ->
            IF d = Xenforo THEN Chars("[/u][/b][/size]\n")
            ELSE Chars("[/u][/b][/font]\n\n")
      [] TagName(tag) = "BlockQuote" ->
            IF d = Xenforo THEN Chars("[/quote]") ELSE Chars("[/blockquote]")
      [] TagName(tag) = "CodeBlock" ->
            IF d = Xenforo THEN Chars("[/code]\n") ELSE Chars("[/pre]\n")
      [] TagName(tag) = "List" ->
            IF d = Xenforo THEN Chars("\n[/list]")
            ELSE (IF TagOrdered(tag) THEN Chars("\n[/ol]") ELSE Chars("\n[/ul]"))
      [] TagName(tag) = "FootnoteDefinition" -> <<"\n">>
      [] TagName(tag) = "Table" ->
            IF d = Xenforo THEN Chars("[/table]")
            ELSE Chars("\n  [/tbody]\n[/table]")
      [] TagName(tag) = "TableHead" ->
            IF d = Xenforo THEN Chars("[/tr]")
            ELSE Chars("[/tr][/thead]\n  [tbody]")
      [] TagName(tag) = "TableRow" -> Chars("[/tr]")
      [] TagName(tag) = "TableCell" -> Chars("[/td]")
      [] TagName(tag) = "Emphasis" -> Chars("[/i]")
      [] TagName(tag) = "Strong" -> Chars("[/b]")
      [] TagName(tag) = "Strikethrough" -> Chars("[/s]")
      [] TagName(tag) = "Link" ->
            IF d = Xenforo THEN Chars("[/url]") ELSE Chars("[/a]")
      [] TagName(tag) = "Image" -> <<>>
      [] OTHER -> <<>>     \* Tag::Item, which on_end handles

\* start_push and end_push of the model's tags, computed once.
start_pushed == [d \in Dialect |-> [tag \in Tags |-> start_push(d, tag)]]
end_pushed == [d \in Dialect |-> [tag \in Tags |-> end_push(d, tag)]]

\* What a handler does: `cut` characters are truncated from the end of
\* `output`, then `push` is appended; the flags become `li` and `fn`; the
\* lines of `warn` go to stderr; with `err` set, convert bails instead.
Effect(cut, push, li, fn, warn, err) == <<cut, push, li, fn, warn, err>>
Cut(e) == e[1]
Push(e) == e[2]
Li(e) == e[3]
Fn(e) == e[4]
Warnings(e) == e[5]
Bails(e) == e[6]

\* What an arm of the Html handler does: it cuts nothing and leaves the flags.
HtmlEffect(push, warn, err) == <<push, warn, err>>

Warn(msg, arg) == <<msg, arg>>

\* on_start with a Tag::Paragraph arm that forgets to reset start_fn.
on_start_keeps_fn(d, tag, li, fn) ==
    CASE TagName(tag) = "Paragraph" ->
            IF li \/ fn
            THEN Effect(0, <<>>, FALSE, fn, <<>>, FALSE)
            ELSE Effect(0, <<"\n">>, li, fn, <<>>, FALSE)
      [] TagName(tag) = "Item" ->
            Effect(0, start_pushed[d][tag], TRUE, fn, <<>>, FALSE)
      [] TagName(tag) = "FootnoteDefinition" ->
            Effect(0, start_pushed[d][tag], li, TRUE, <<>>, FALSE)
      [] OTHER -> Effect(0, start_pushed[d][tag], li, fn, <<>>, FALSE)

\* Event::Start(tag)
on_start(d, tag, li, fn) ==
    CASE TagName(tag) = "Paragraph" ->
            IF li \/ fn
            THEN Effect(0, <<>>, FALSE, FALSE, <<>>, FALSE)
            ELSE Effect(0, <<"\n">>, li, fn, <<>>, FALSE)
      [] TagName(tag) = "Item" ->
            Effect(0, start_pushed[d][tag], TRUE, fn, <<>>, FALSE)
      [] TagName(tag) = "FootnoteDefinition" ->
            Effect(0, start_pushed[d][tag], li, TRUE, <<>>, FALSE)
      [] OTHER -> Effect(0, start_pushed[d][tag], li, fn, <<>>, FALSE)

\* Event::End(tag)
on_end(d, tag, li, fn, out) ==
    IF TagName(tag) = "Item"
    THEN Effect(Len(out) - Len(trim_end(out)),
                IF d = Xenforo THEN <<>> ELSE Chars("[/li]"),
                li, fn, <<>>, FALSE)
    ELSE Effect(0, end_pushed[d][tag], li, fn, <<>>, FALSE)

\* Event::Code(s)
on_code(d, s) ==
    (IF d = Xenforo THEN Chars("[font=Courier New]") ELSE Chars("[tt]"))
    \o s
    \o (IF d = Xenforo THEN Chars("[/font]") ELSE Chars("[/tt]"))

\* The `<br` arm of Event::Html(s).
html_br(s, s_trimmed) ==
    LET is_br == /\ Len(s_trimmed) >= 4
                 /\ \/ IsWhitespace(s_trimmed[4])
                    \/ s_trimmed[4] \in {"/", ">"}
    IN  IF is_br
        THEN HtmlEffect(<<"\n">>, <<>>, FALSE)
        ELSE HtmlEffect(s, <<Warn("Unrecognised HTML tag", s_trimmed)>>, FALSE)

\* html_summary without its test of the closing marker.
html_summary_unchecked(d, s_trimmed) ==
    IF d = Xenforo
    THEN LET pieces == split(s_trimmed, <<>>)
         IN  IF Len(pieces) < 3
             THEN HtmlEffect(<<>>, <<>>, TRUE)
             ELSE HtmlEffect(decode_html_entities(pieces[3]) \o <<"]">>,
                             <<>>, FALSE)
    ELSE HtmlEffect(<<>>, <<>>, FALSE)

\* The `<summary` arm of Event::Html(s).
html_summary(d, s_trimmed) ==
    IF d = Xenforo
    THEN IF ~ends_with(s_trimmed, Chars("</summary>"))
         THEN HtmlEffect(<<>>, <<>>, TRUE)
         ELSE LET pieces == split(s_trimmed, <<>>)
              IN  IF Len(pieces) < 3
                  THEN HtmlEffect(<<>>, <<>>, TRUE)
                  ELSE HtmlEffect(decode_html_entities(pieces[3]) \o <<"]">>, <<>>, FALSE)
    ELSE HtmlEffect(<<>>, <<>>, FALSE)

\* The `<details>` arm of Event::Html(s).
html_details(d) ==
    IF d = Xenforo
    THEN HtmlEffect(Chars("\n[spoiler="), <<>>, FALSE)
    ELSE HtmlEffect(<<>>, <<Warn("ProBoards doesn't support <details>", <<>>)>>, FALSE)

\* html_details_end without its match on the dialect.
html_details_end_any(d) == HtmlEffect(Chars("[/spoiler]\n"), <<>>, FALSE)

\* The `</details>` arm of Event::Html(s).
html_details_end(d) ==
    HtmlEffect(IF d = Xenforo THEN Chars("[/spoiler]\n") ELSE <<>>, <<>>, FALSE)

\* html_other bailing on what it does not know, where the source warns.
html_other_bails(s) ==
    IF ~starts_with(s, Chars("<!"))
    THEN HtmlEffect(<<>>, <<>>, TRUE)
    ELSE HtmlEffect(<<>>, <<>>, FALSE)

\* The last arm of Event::Html(s): no known element.
html_other(s) ==
    IF ~starts_with(s, Chars("<!"))
    THEN HtmlEffect(s, <<Warn("Unrecognised HTML tag", s)>>, FALSE)
    ELSE HtmlEffect(<<>>, <<>>, FALSE)

\* The elements of Event::Html(s) with one fixed translation, by dialect.
html_known == [d \in Dialect |->
    (Chars("<del>") :> Chars("[s]")) @@ (Chars("</del>") :> Chars("[/s]"))
    @@ (Chars("<sup>") :> Chars("[sup]")) @@ (Chars("</sup>") :> Chars("[/sup]"))
    @@ (Chars("<sub>") :> Chars("[sub]")) @@ (Chars("</sub>") :> Chars("[/sub]"))
    @@ (Chars("<b>") :> Chars("[b]")) @@ (Chars("</b>") :> Chars("[/b]"))
    @@ (Chars("<i>") :> Chars("[i]")) @@ (Chars("</i>") :> Chars("[/i]"))
    @@ (Chars("<blockquote>") :>
            IF d = Xenforo THEN Chars("[quote]") ELSE Chars("[blockquote]"))
    @@ (Chars("</blockquote>") :>
            IF d = Xenforo THEN Chars("[/quote]") ELSE Chars("[/blockquote]"))]

\* Event::Html(s)
on_html(d, s) ==
    LET s_trimmed == trim(s)
    IN  IF s_trimmed \in DOMAIN html_known[d]
        THEN HtmlEffect(html_known[d][s_trimmed], <<>>, FALSE)
        ELSE IF s_trimmed = Chars("<details>")
        THEN html_details(d)
        ELSE IF starts_with(s_trimmed, Chars("<br"))
        THEN html_br(s, s_trimmed)
        ELSE IF starts_with(s_trimmed, Chars("<summary"))
        THEN html_summary(d, s_trimmed)
        ELSE IF s_trimmed = Chars("</details>")
        THEN html_details_end(d)
        ELSE html_other(s)

\* Event::FootnoteReference(fnid)
on_footnote_reference(d, fnid) ==
    (IF d = Xenforo THEN <<>> ELSE Chars("[sup]"))
    \o <<"U+231C">> \o fnid \o <<"U+231D">>
    \o (IF d = Xenforo THEN <<>> ELSE Chars("[/sup]"))

\* Event::Rule: for XenForo, a line of 32 heavy horizontal strokes.
on_rule(d) ==
    IF d = Xenforo
    THEN <<"\n">> \o [i \in 1..32 |-> "U+2501"] \o <<"\n">>
    ELSE Chars("\n[hr]\n")

\* Event::TaskListMarker(checked)
on_task_list_marker(checked) ==
    <<IF checked THEN "U+2611" ELSE "U+2610", "U+00A0">>

\* One iteration of `for event in parser`: the arm of `match event`.
handle(d, ev, li, fn, out) ==
    CASE Kind(ev) = "Start" -> on_start(d, EventTag(ev), li, fn)
      [] Kind(ev) = "End" -> on_end(d, EventTag(ev), li, fn, out)
      [] Kind(ev) = "Text" -> Effect(0, EventText(ev), li, fn, <<>>, FALSE)
      [] Kind(ev) = "Code" -> Effect(0, on_code(d, EventText(ev)), li, fn, <<>>, FALSE)
      [] Kind(ev) = "Html" ->
            LET h == on_html(d, EventText(ev))
            IN  Effect(0, h[1], li, fn, h[2], h[3])
      [] Kind(ev) = "FootnoteReference" ->
            Effect(0, on_footnote_reference(d, EventText(ev)), li, fn, <<>>, FALSE)
      [] Kind(ev) = "SoftBreak" -> Effect(0, <<" ">>, li, fn, <<>>, FALSE)
      [] Kind(ev) = "HardBreak" -> Effect(0, <<"\n">>, li, fn, <<>>, FALSE)
      [] Kind(ev) = "Rule" -> Effect(0, on_rule(d), li, fn, <<>>, FALSE)
      [] Kind(ev) = "TaskListMarker" ->
            Effect(0, on_task_list_marker(Checked(ev)), li, fn, <<>>, FALSE)

---------------------------------------------------------------------------
(* The state machine                                                       *)

\* What convert has returned: nothing yet, Ok(output) or Err(message).
Running == <<"running", <<>>, "">>
Ok(value) == <<"ok", value, "">>
Err(error) == <<"err", <<>>, error>>
Status(r) == r[1]
Value(r) == r[2]
Error(r) == r[3]

\* An entry of the log.
Entry(ev, cut, push, warn) == <<ev, cut, push, warn>>
LogEvent(i) == log[i][1]
LogCut(i) == log[i][2]
LogPush(i) == log[i][3]
LogWarn(i) == log[i][4]

\* The state of convert before its first event.
Init ==
    /\ dialect \in Dialect
    /\ encoding_warnings \in BOOLEAN
    /\ output = <<>>
    /\ start_li = FALSE
    /\ start_fn = FALSE
    /\ stderr = <<>>
    /\ result = Running
    /\ log = <<>>

\* The parser yields `ev`, one of at most n events, and convert handles it.
\* On bail!, convert returns the error and `output` is dropped as it is.
Feed(ev, n) ==
    /\ Status(result) = "running"
    /\ Len(log) < n
    /\ LET e == handle(dialect, ev, start_li, start_fn, output)
       IN  IF Bails(e)
           THEN /\ result' = Err(MULTILINE_SUMMARY)
                /\ log' = Append(log, Entry(ev, 0, <<>>, <<>>))
                /\ UNCHANGED <<output, start_li, start_fn, stderr>>
           ELSE /\ output' = SubSeq(output, 1, Len(output) - Cut(e)) \o Push(e)
                /\ start_li' = Li(e)
                /\ start_fn' = Fn(e)
                /\ stderr' = stderr \o Warnings(e)
                /\ log' = Append(log, Entry(ev, Cut(e), Push(e), Warnings(e)))
                /\ UNCHANGED result
    /\ UNCHANGED <<dialect, encoding_warnings>>

\* is_non_ucs2 with > for >=.
is_non_ucs2_strict(c) == CodePoint(c) > 65534

\* `c >= '\u{fffe}'`
is_non_ucs2(c) == CodePoint(c) >= 65534

\* `for c in output.chars()`: one warning for each flagged character.
encoding_pass(out) ==
    LET flagged == SelectSeq(out, is_non_ucs2)
    IN  [i \in 1..Len(flagged) |->
            Warn("Non-UCS-2 character in output", <<flagged[i]>>)]

\* The parser is exhausted: the optional encoding pass, then Ok(output).
Finish ==
    /\ Status(result) = "running"
    /\ stderr' = IF encoding_warnings /\ dialect = Xenforo
                 THEN stderr \o encoding_pass(output)
                 ELSE stderr
    /\ result' = Ok(output)
    /\ UNCHANGED <<dialect, encoding_warnings, output, start_li, start_fn, log>>

\* The events consumed so far.
events == [i \in 1..Len(log) |-> LogEvent(i)]

\* Whether the events evs are ill-nested (an End does not close the innermost
\* open tag), and the tags open after them, innermost last.
RECURSIVE open_tags(_, _)
open_tags(evs, st) ==
    IF evs = <<>> THEN <<FALSE, st>>
    ELSE IF Kind(evs[1]) = "Start"
    THEN open_tags(Tail(evs), Append(st, EventTag(evs[1])))
    ELSE IF Kind(evs[1]) = "End"
    THEN IF st # <<>> /\ st[Len(st)] = EventTag(evs[1])
         THEN open_tags(Tail(evs), SubSeq(st, 1, Len(st) - 1))
         ELSE <<TRUE, st>>
    ELSE open_tags(Tail(evs), st)

\* evs is the beginning of a well-nested sequence.
WellNestedPrefix(evs) == ~open_tags(evs, <<>>)[1]
\* evs is well-nested: every StartTag has met its EndTag.
WellNested(evs) == open_tags(evs, <<>>) = <<FALSE, <<>>>>

\* One action for each arm of `match event`, over the payloads in the sets.
Event_Start(tags, n) == \E tag \in tags : Feed(Start(tag), n)
Event_End(tags, n) == \E tag \in tags : Feed(End(tag), n)
\* Event::End(tag) of a parser that closes only the innermost open tag.
Event_EndNested(n) ==
    LET open == open_tags(events, <<>>)[2]
    IN  /\ open # <<>>
        /\ Feed(End(open[Len(open)]), n)
Event_Text(texts, n) == \E s \in texts : Feed(Text(s), n)
Event_Code(texts, n) == \E s \in texts : Feed(Code(s), n)
Event_Html(texts, n) == \E s \in texts : Feed(Html(s), n)
Event_FootnoteReference(n) == Feed(FootnoteReference(<<"1">>), n)
Event_SoftBreak(n) == Feed(SoftBreak, n)
Event_HardBreak(n) == Feed(HardBreak, n)
Event_Rule(n) == Feed(Rule, n)
Event_TaskListMarker(n) == \E b \in BOOLEAN : Feed(TaskListMarker(b), n)

---------------------------------------------------------------------------
(* The inputs                                                              *)

HtmlSample == {Chars("<del>"), Chars("<details>"), Chars("<x>")}

\* Every kind of event, in any order.
Next ==
    \/ Event_Start(AllTags, MaxEvents)
    \/ Event_End(AllTags, MaxEvents)
    \/ Event_Text({Chars("a \n")}, MaxEvents)
    \/ Event_Code({Chars("c")}, MaxEvents)
    \/ Event_Html(HtmlSample, MaxEvents)
    \/ Event_FootnoteReference(MaxEvents)
    \/ Event_SoftBreak(MaxEvents)
    \/ Event_HardBreak(MaxEvents)
    \/ Event_Rule(MaxEvents)
    \/ Event_TaskListMarker(MaxEvents)
    \/ Finish

Spec == Init /\ [][Next]_vars

\* Paragraphs, list items and footnote definitions, in any order.
NextFlags ==
    \/ Event_Start(FlagTags, MaxFlagEvents)
    \/ Event_End(FlagTags, MaxFlagEvents)
    \/ Event_Text({Chars("a")}, MaxFlagEvents)
    \/ Finish

SpecFlags == Init /\ [][NextFlags]_vars

\* Well-nested documents: the parser closes only the innermost open tag.
NextNest ==
    \/ Event_Start(NestTags, MaxNestEvents)
    \/ Event_EndNested(MaxNestEvents)
    \/ Finish

\* The encoding pass reads no tag: these documents are converted without it.
InitNest == Init /\ ~encoding_warnings

SpecNest == InitNest /\ [][NextNest]_vars

\* Raw HTML fragments: for each arm of the Html handler, fragments that
\* take it and fragments that just miss it.
HtmlTexts ==
    {Chars("<del>"), Chars(" <b> "), Chars("<details>"), Chars("</details>"),
     Chars("<br/>"), Chars("<br"), Chars("<brx>"),
     Chars("<summary>a&amp;b</summary>"), Chars("<summary>a</summary>\n"),
     Chars("<summary>a"), Chars("<x>"), Chars(" <x>"),
     Chars("<!-- -->"), Chars(" <!-- -->")}

NextHtml ==
    \/ Event_Html(HtmlTexts, MaxHtmlEvents)
    \/ Event_Text({Chars("a"), <<"U+FFFE">>}, MaxHtmlEvents)
    \/ Finish

SpecHtml == Init /\ [][NextHtml]_vars

\* Text of one character, around the limit of the encoding pass, and the
\* events that push characters outside ASCII.
CharTexts ==
    {<<c>> : c \in {"a", "U+00A0", "U+FFFD", "U+FFFE", "U+FFFF", "U+10000",
                    "U+1F600"}}

NextChars ==
    \/ Event_Text(CharTexts, MaxCharEvents)
    \/ Event_FootnoteReference(MaxCharEvents)
    \/ Event_Rule(MaxCharEvents)
    \/ Event_TaskListMarker(MaxCharEvents)
    \/ Finish

SpecChars == Init /\ [][NextChars]_vars

\* Lists, their items and paragraphs, closed innermost first, with the
\* events that push white space inside an item.
ItemTags == {List(FALSE), Item, Paragraph}

NextItems ==
    \/ Event_Start(ItemTags, MaxItemEvents)
    \/ Event_EndNested(MaxItemEvents)
    \/ Event_Text({Chars(" "), Chars("a ")}, MaxItemEvents)
    \/ Event_HardBreak(MaxItemEvents)
    \/ Event_TaskListMarker(MaxItemEvents)
    \/ Finish

SpecItems == Init /\ [][NextItems]_vars

---------------------------------------------------------------------------
(* The claims                                                              *)

IsStart(ev, name) == Kind(ev) = "Start" /\ TagName(EventTag(ev)) = name
IsEnd(ev, name) == Kind(ev) = "End" /\ TagName(EventTag(ev)) = name
IsPrefix(s, t) == Len(s) <= Len(t) /\ SubSeq(t, 1, Len(s)) = s

\* The index in the log of the last StartTag(Paragraph), 0 when there is none.
LastParagraphStart ==
    LET ps == {i \in 1..Len(log) : IsStart(LogEvent(i), "Paragraph")}
    IN  IF ps = {} THEN 0 ELSE CHOOSE i \in ps : \A j \in ps : j <= i

\* A StartTag of this name has been handled since the last StartTag(Paragraph).
StartedSinceParagraph(name) ==
    \E i \in (LastParagraphStart + 1)..Len(log) : IsStart(LogEvent(i), name)

\* C1, as stated: in every state reached after any prefix of any event
\* sequence, in either dialect, at most one of start_li and start_fn is true.
C1_AtMostOneFlag == ~(start_li /\ start_fn)

\* C1, amended: each flag is true exactly when a StartTag of its own kind
\* (Item for start_li, FootnoteDefinition for start_fn) has been handled
\* since the last StartTag(Paragraph); so both are false right after a
\* StartTag(Paragraph), and both are true when an Item and a
\* FootnoteDefinition have started with no paragraph start between them.
C1_FlagsSinceParagraph ==
    /\ start_li = StartedSinceParagraph("Item")
    /\ start_fn = StartedSinceParagraph("FootnoteDefinition")

\* C1's case: after a StartTag(Paragraph) has reset the flags, both are set.
C1_BothFlagsSet ==
    /\ start_li /\ start_fn
    /\ LastParagraphStart > 0

\* The size token a heading's opening markup carries: the character after
\* the first double quote.
SizeToken(push) ==
    push[1 + CHOOSE i \in 1..Len(push) :
                push[i] = "\"" /\ \A j \in 1..(i - 1) : push[j] # "\""]

HeadingStarts == {i \in 1..Len(log) : IsStart(LogEvent(i), "Heading")}
Level(i) == TagLevel(EventTag(LogEvent(i)))
Size(i) == CodePoint(SizeToken(LogPush(i)))

IsHtml(ev) == Kind(ev) = "Html"
\* The fragment of an Html event, trimmed as the handler trims it.
Trimmed(ev) == trim(EventText(ev))

\* A fragment that opens a summary and does not end with its closing marker.
MalformedSummary(ev) ==
    /\ IsHtml(ev)
    /\ starts_with(Trimmed(ev), Chars("<summary"))
    /\ ~ends_with(Trimmed(ev), Chars("</summary>"))

\* convert has stopped at the i-th event with the error, returning no output.
AbortedAt(i) ==
    /\ i = Len(log)
    /\ Status(result) = "err"
    /\ Error(result) = MULTILINE_SUMMARY
    /\ Value(result) = <<>>

\* C3, as stated: in every dialect, at a fragment that opens a summary and
\* does not end with the closing marker, convert stops and returns the
\* error, and none of the output accumulated so far.
C3_MalformedSummaryAborts ==
    \A i \in 1..Len(log) : MalformedSummary(LogEvent(i)) => AbortedAt(i)

\* C3, amended: in the XenForo dialect, at a fragment that opens a summary
\* and does not end with the closing marker, convert stops and returns the
\* error, and none of the output accumulated so far.  (In the ProBoards
\* dialect such a fragment is skipped.)
C3_MalformedSummaryAbortsXenforo ==
    dialect = Xenforo =>
        \A i \in 1..Len(log) : MalformedSummary(LogEvent(i)) => AbortedAt(i)

\* C3's case: XenForo, output accumulated, then the malformed summary.
C3_AbortedWithOutput ==
    /\ dialect = Xenforo
    /\ Len(log) > 1
    /\ output # <<>>
    /\ MalformedSummary(LogEvent(Len(log)))
    /\ Status(result) = "err"

\* A fragment that matches no construct of the whitelist.
Unrecognised(ev) ==
    /\ IsHtml(ev)
    /\ Trimmed(ev) \notin DOMAIN html_known[dialect]
    /\ Trimmed(ev) \notin {Chars("<details>"), Chars("</details>")}
    /\ ~starts_with(Trimmed(ev), Chars("<br"))
    /\ ~starts_with(Trimmed(ev), Chars("<summary"))

\* C6, as stated: an unrecognised fragment whose trimmed text begins with
\* "<!" appends nothing and warns of nothing; any other unrecognised
\* fragment emits exactly one warning and is appended as it came.
C6_CommentsDroppedAfterTrim ==
    \A i \in 1..Len(log) :
        Unrecognised(LogEvent(i)) =>
            IF starts_with(Trimmed(LogEvent(i)), Chars("<!"))
            THEN LogPush(i) = <<>> /\ LogWarn(i) = <<>>
            ELSE LogPush(i) = EventText(LogEvent(i)) /\ Len(LogWarn(i)) = 1

\* The event a step has handled.
Handled == log'[Len(log')][1]
Steps == Len(log') = Len(log) + 1

\* A fragment of the disclosure construct.
IsDetails(ev) == IsHtml(ev) /\ Trimmed(ev) = Chars("<details>")
IsDisclosure(ev) ==
    /\ IsHtml(ev)
    /\ \/ Trimmed(ev) \in {Chars("<details>"), Chars("</details>")}
       \/ starts_with(Trimmed(ev), Chars("<summary"))

\* C9: in the ProBoards dialect the fragments <details>, </details> and
\* <summary... leave the output buffer as it is, and <details> writes one
\* warning.
C9_ProboardsDisclosureSilent ==
    [][Steps /\ dialect = Proboards /\ IsDisclosure(Handled) =>
          /\ output' = output
          /\ IsDetails(Handled) => Len(stderr') = Len(stderr) + 1]_vars

\* C9's case: ProBoards has handled <details>, a summary and </details>,
\* and the buffer is empty still.
C9_DisclosureHandled ==
    /\ dialect = Proboards
    /\ Len(log) = 3
    /\ IsDetails(LogEvent(1))
    /\ starts_with(Trimmed(LogEvent(2)), Chars("<summary"))
    /\ Trimmed(LogEvent(3)) = Chars("</details>")
    /\ output = <<>>
    /\ Len(stderr) = 1

\* C10: convert returns the error only at a malformed summary; without
\* one among the events it does not fail, and what it returns at the end of
\* the events is the output.
C10_OnlyMalformedSummaryAborts ==
    /\ Status(result) = "err" =>
          Len(log) > 0 /\ MalformedSummary(LogEvent(Len(log)))
    /\ Status(result) = "ok" => Value(result) = output

\* C10's case: an unknown fragment, a well-formed summary and a character
\* the encoding pass flags have been handled with warnings, and convert has
\* returned its output.
C10_ReturnedAfterWarnings ==
    /\ Status(result) = "ok"
    /\ \E i \in 1..Len(log) : Unrecognised(LogEvent(i)) /\ LogWarn(i) # <<>>
    /\ \E i \in 1..Len(log) :
          /\ starts_with(Trimmed(LogEvent(i)), Chars("<summary"))
          /\ ~MalformedSummary(LogEvent(i))
    /\ \E i \in 1..Len(stderr) : stderr[i][1] = "Non-UCS-2 character in output"

\* How often the token tok occurs in the string str.
Count(tok, str) ==
    Cardinality({i \in 1..(Len(str) - Len(tok) + 1) :
                    SubSeq(str, i, i + Len(tok) - 1) = tok})

\* The opening and closing tokens of each dialect's constructs.  XenForo
\* closes both kinds of list with one token, and its item-open token [*]
\* has no closing token; an image is one token, or closed where it opens.
Brackets == [d \in Dialect |->
    {<<Chars("[b]"), Chars("[/b]")>>, <<Chars("[u]"), Chars("[/u]")>>,
     <<Chars("[i]"), Chars("[/i]")>>, <<Chars("[s]"), Chars("[/s]")>>,
     <<Chars("[table]"), Chars("[/table]")>>,
     <<Chars("[tr]"), Chars("[/tr]")>>, <<Chars("[td]"), Chars("[/td]")>>}
    \cup
    IF d = Xenforo
    THEN {<<Chars("[size="), Chars("[/size]")>>,
          <<Chars("[quote]"), Chars("[/quote]")>>,
          <<Chars("[code]"), Chars("[/code]")>>,
          <<Chars("[list"), Chars("[/list]")>>,
          <<Chars("[url="), Chars("[/url]")>>,
          <<Chars("[img]"), Chars("[/img]")>>}
    ELSE {<<Chars("[font size="), Chars("[/font]")>>,
          <<Chars("[blockquote]"), Chars("[/blockquote]")>>,
          <<Chars("[pre]"), Chars("[/pre]")>>,
          <<Chars("[ol]"), Chars("[/ol]")>>, <<Chars("[ul]"), Chars("[/ul]")>>,
          <<Chars("[li]"), Chars("[/li]")>>,
          <<Chars("[thead]"), Chars("[/thead]")>>,
          <<Chars("[tbody]"), Chars("[/tbody]")>>,
          <<Chars("[a href="), Chars("[/a]")>>}]

Balanced(str) ==
    \A pair \in Brackets[dialect] : Count(pair[1], str) = Count(pair[2], str)

\* The tables of evs are as the parser yields them: a TableHead is a
\* child of a Table, and a Table has had one TableHead when it ends.  The
\* stack holds, for each open tag, its name and the TableHeads it has had.
RECURSIVE tables_parsed(_, _)
tables_parsed(evs, st) ==
    IF evs = <<>> THEN TRUE
    ELSE IF IsStart(evs[1], "TableHead")
    THEN /\ st # <<>>
         /\ st[Len(st)] = <<"Table", 0>>
         /\ tables_parsed(Tail(evs),
                SubSeq(st, 1, Len(st) - 1) \o <<<<"Table", 1>>, <<"TableHead", 0>>>>)
    ELSE IF Kind(evs[1]) = "Start"
    THEN tables_parsed(Tail(evs), Append(st, <<TagName(EventTag(evs[1])), 0>>))
    ELSE IF Kind(evs[1]) = "End"
    THEN /\ st # <<>>
         /\ IsEnd(evs[1], "Table") => st[Len(st)] = <<"Table", 1>>
         /\ tables_parsed(Tail(evs), SubSeq(st, 1, Len(st) - 1))
    ELSE tables_parsed(Tail(evs), st)

C5_BlankLineUnlessFirstInItem ==
    WellNested(events) =>
        \A i \in 1..Len(log) :
            IsStart(LogEvent(i), "Paragraph") =>
                (LogPush(i) = <<>>
                    <=> /\ i > 1
                        /\ \/ IsStart(LogEvent(i - 1), "Item")
                           \/ IsStart(LogEvent(i - 1), "FootnoteDefinition"))

\* The characters the encoding pass has warned of, in order.
Flagged ==
    LET w == SelectSeq(stderr, LAMBDA x : x[1] = "Non-UCS-2 character in output")
    IN  [i \in 1..Len(w) |-> w[i][2][1]]

Above(limit, c) == CodePoint(c) > limit
AboveFFFF(c) == Above(65535, c)
AboveFFFD(c) == Above(65533, c)
EncodingPassRan ==
    Status(result) = "ok" /\ encoding_warnings /\ dialect = Xenforo

\* C7, as stated: the encoding pass for XenForo warns of a character of the
\* output exactly when its code point is above 0xFFFF.
C7_WarnsAboveFFFF ==
    EncodingPassRan => Flagged = SelectSeq(Value(result), AboveFFFF)

\* C7, amended: the encoding pass for XenForo warns of a character of the
\* output exactly when its code point is 0xFFFE or above; the characters
\* 0x0000 to 0xFFFD are never flagged.
C7_WarnsFromFFFE ==
    EncodingPassRan => Flagged = SelectSeq(Value(result), AboveFFFD)

\* C7's case: the pass has run over U+FFFD and U+FFFE.
C7_PassOverLimit ==
    /\ EncodingPassRan
    /\ \E i, j \in 1..Len(output) : output[i] = "U+FFFD" /\ output[j] = "U+FFFE"

\* What a step removes from the end of the buffer is white space, all of it.
CutsTrailingWhitespace(kept) ==
    /\ kept <= Len(output)
    /\ \A i \in (kept + 1)..Len(output) : IsWhitespace(output[i])
    /\ kept > 0 => ~IsWhitespace(output[kept])

\* C8: every event but EndTag(ListItem) only appends to the buffer;
\* EndTag(ListItem) removes the trailing white space of the buffer, all of
\* it and nothing else, and then appends the item-close token.
C8_AppendOnlyButItemEnd ==
    [][Steps =>
          IF IsEnd(Handled, "Item")
          THEN \E kept \in 0..Len(output) :
                  /\ CutsTrailingWhitespace(kept)
                  /\ output' = SubSeq(output, 1, kept)
                        \o (IF dialect = Xenforo THEN <<>> ELSE Chars("[/li]"))
          ELSE IsPrefix(output, output')]_vars

\* C8's case: EndTag(ListItem) has cut white space from the buffer.
C8_ItemEndTruncated ==
    /\ Len(log) > 1
    /\ IsEnd(LogEvent(Len(log)), "Item")
    /\ LogCut(Len(log)) > 0

---------------------------------------------------------------------------
\* The buffer after the first k events, rebuilt from the log.
RECURSIVE BufferAfter(_)
BufferAfter(k) ==
    IF k = 0 THEN <<>>
    ELSE LET before == BufferAfter(k - 1)
         IN  SubSeq(before, 1, Len(before) - LogCut(k)) \o LogPush(k)

\* The index of the StartTag that the EndTag at j closes, scanning back from
\* i with `depth` tags closed on the way; 0 when there is none.
RECURSIVE StartBefore(_, _)
StartBefore(i, depth) ==
    IF i = 0 THEN 0
    ELSE IF Kind(LogEvent(i)) = "End" THEN StartBefore(i - 1, depth + 1)
    ELSE IF Kind(LogEvent(i)) = "Start"
    THEN IF depth = 0 THEN i ELSE StartBefore(i - 1, depth - 1)
    ELSE StartBefore(i - 1, depth)

MatchingStart(j) == StartBefore(j - 1, 0)

\* What the EndTag at j leaves of the buffer, before it pushes anything.
KeptAt(j) ==
    LET before == BufferAfter(j - 1)
    IN  SubSeq(before, 1, Len(before) - LogCut(j))

\* C11: in a well-nested sequence, the truncation at EndTag(ListItem) keeps
\* the whole buffer as it was right after the matching StartTag(ListItem)
\* pushed its item-open token: the buffer is never cut below that length,
\* and the item-open token and everything before it stay in place.
C11_ItemEndKeepsItemOpen ==
    WellNestedPrefix(events) =>
        \A j \in 1..Len(log) :
            IsEnd(LogEvent(j), "Item") =>
                LET i == MatchingStart(j)
                IN  /\ i > 0
                    /\ IsStart(LogEvent(i), "Item")
                    /\ Len(KeptAt(j)) >= Len(BufferAfter(i))
                    /\ IsPrefix(BufferAfter(i), KeptAt(j))

\* C11's case: an item that holds white space at its end has been closed,
\* and EndTag(ListItem) has cut that white space.
C11_ItemTrimmedToContent ==
    /\ WellNestedPrefix(events)
    /\ \E j \in 1..Len(log) :
          /\ IsEnd(LogEvent(j), "Item")
          /\ LogCut(j) > 0
          /\ MatchingStart(j) > 0
          /\ IsStart(LogEvent(MatchingStart(j)), "Item")
          /\ Len(KeptAt(j)) > Len(BufferAfter(MatchingStart(j)))

=============================================================================
